---- MODULE Spec2Model ----
(***************************************************************************)
(* CompanionStar (src/index.tsx): the multi-speaker stream parser          *)
(* (parseBubbles), the chat reducer (sendMessage of useCompanionChat) and  *)
(* the note store (useThoughtSoil).                                        *)
(*                                                                         *)
(* Text is modelled at character level: a string is a sequence of          *)
(* one-character strings.  A character outside ASCII is written as its     *)
(* code point, "U+6B63", and is one element of the sequence.               *)
(***************************************************************************)
EXTENDS Integers, Sequences, FiniteSets, TLC

VARIABLES
    chatHistory,   \* useState<Message[]> of useCompanionChat (line 145)
    isLoading,     \* useState(false) of useCompanionChat (line 146)
    calls,         \* the sendMessage activations suspended at an await
    now,           \* the value Date.now() returns
    thoughts,      \* useState<Thought[]> of useThoughtSoil (line 113)
    activeIds,     \* useState<SymbiontId[]> of App (line 285)
    nTurns,        \* accepted submissions so far (bounded by MaxTurns)
    nDeltas,       \* chunks delivered so far (bounded by MaxDeltas)
    pRaw,          \* parser harness: the buffer handed to parseBubbles
    pOut,          \* parser harness: parseBubbles(pRaw)
    pBase,         \* parser harness: an earlier buffer, a prefix of pRaw
    pBaseOut,      \* parser harness: parseBubbles(pBase), as returned then
    pN             \* parser harness: fragments appended to pRaw so far

vars == <<chatHistory, isLoading, calls, now, thoughts, activeIds, nTurns,
          nDeltas, pRaw, pOut, pBase, pBaseOut, pN>>

chatVars == <<chatHistory, isLoading, calls, now, thoughts, activeIds,
              nTurns, nDeltas>>

parseVars == <<pRaw, pOut, pBase, pBaseOut, pN>>

-----------------------------------------------------------------------------
(* Bounds of the model *)

MaxTurns == 2
MaxDeltas == 2
MaxClock == 1
MaxThoughts == 1
MaxFrags == 3

-----------------------------------------------------------------------------
(* Characters and strings *)

WordChars ==
    {"a", "b", "c", "d", "e", "f", "g", "h", "i", "j", "k", "l", "m", "n", "o",
     "p", "q", "r", "s", "t", "u", "v", "w", "x", "y", "z",
     "A", "B", "C", "D", "E", "F", "G", "H", "I", "J", "K", "L", "M", "N", "O",
     "P", "Q", "R", "S", "T", "U", "V", "W", "X", "Y", "Z",
     "0", "1", "2", "3", "4", "5", "6", "7", "8", "9", "_"}

(* What String.prototype.trim removes: the WhiteSpace code points (tab,
   vertical tab, form feed, U+FEFF and the Space_Separator category) and
   the line terminators *)
WhiteSpace ==
    {" ", "\t", "\n", "\r", "\f", "U+000B", "U+00A0", "U+FEFF", "U+2028",
     "U+2029", "U+3000",
     "U+1680", "U+2000", "U+2001", "U+2002", "U+2003", "U+2004", "U+2005",
     "U+2006", "U+2007", "U+2008", "U+2009", "U+200A", "U+202F", "U+205F"}

StartTag == <<"[", "S", "T", "A", "R", "T", ":">>
EndTag == <<"[", "E", "N", "D", "]">>
CloseBracket == "]"

ThinkingText == <<"U+6B63", "U+5728", "U+601D", "U+8003", ".", ".", ".">>
ClosedPlaceholder == <<".", ".", ".">>
FallbackText ==
    <<"U+661F", "U+80FD", "U+6CE2", "U+52A8", "U+5267", "U+70C8", "U+FF0C",
      "U+4F20", "U+8F93", "U+4E2D", "U+65AD", "U+3002">>
GreetingText ==
    <<"U+8BF6", "U+8BF6", "U+8BF6", "U+FF01", "U+5FF5", "U+4E3B", "U+7EC8",
      "U+4E8E", "U+5F00", "U+542F", "U+5171", "U+751F", "U+7A7A", "U+95F4",
      "U+5566", "U+FF01">>
SoilTag == <<"U+7A7A", "U+95F4", "U+7075", "U+611F">>

Id_xiaozhi == <<"x", "i", "a", "o", "z", "h", "i">>
Id_apu == <<"a", "p", "u">>
Id_moyan == <<"m", "o", "y", "a", "n">>
Id_tiaotiao == <<"t", "i", "a", "o", "t", "i", "a", "o">>
Id_nuonuo == <<"n", "u", "o", "n", "u", "o">>
Id_lingxi == <<"l", "i", "n", "g", "x", "i">>
Id_constructor == <<"c", "o", "n", "s", "t", "r", "u", "c", "t", "o", "r">>
Id_proto == <<"_", "_", "p", "r", "o", "t", "o", "_", "_">>

(* The own keys of SYMBIONTS *)
SymbiontIds ==
    {Id_xiaozhi, Id_apu, Id_moyan, Id_tiaotiao, Id_nuonuo, Id_lingxi}

(* SYMBIONTS is an object literal: a lookup also finds what it inherits
   from Object.prototype, and each of these values is truthy. *)
ObjectPrototypeKeys ==
    { Id_constructor,
      <<"t", "o", "S", "t", "r", "i", "n", "g">>,
      <<"t", "o", "L", "o", "c", "a", "l", "e", "S", "t", "r", "i", "n", "g">>,
      <<"v", "a", "l", "u", "e", "O", "f">>,
      <<"h", "a", "s", "O", "w", "n", "P", "r", "o", "p", "e", "r", "t", "y">>,
      <<"i", "s", "P", "r", "o", "t", "o", "t", "y", "p", "e", "O", "f">>,
      <<"p", "r", "o", "p", "e", "r", "t", "y", "I", "s", "E", "n", "u", "m",
        "e", "r", "a", "b", "l", "e">>,
      <<"_", "_", "d", "e", "f", "i", "n", "e", "G", "e", "t", "t", "e", "r",
        "_", "_">>,
      <<"_", "_", "d", "e", "f", "i", "n", "e", "S", "e", "t", "t", "e", "r",
        "_", "_">>,
      <<"_", "_", "l", "o", "o", "k", "u", "p", "G", "e", "t", "t", "e", "r",
        "_", "_">>,
      <<"_", "_", "l", "o", "o", "k", "u", "p", "S", "e", "t", "t", "e", "r",
        "_", "_">>,
      Id_proto }

(* The truthiness of SYMBIONTS[speakerId] (line 156) *)
SymbiontLookup(speakerId) ==
    speakerId \in SymbiontIds \/ speakerId \in ObjectPrototypeKeys

(* SYMBIONTS[speaker].name (line 127): the persona's name, or the name
   property of the inherited value ("Object" for the constructor, none for
   the prototype object itself) *)
SymbiontName(speaker) ==
    CASE speaker = Id_xiaozhi -> <<"U+5C0F", "U+7EC7">>
      [] speaker = Id_apu -> <<"U+963F", "U+5657">>
      [] speaker = Id_moyan -> <<"U+58A8", "U+8A00">>
      [] speaker = Id_tiaotiao -> <<"U+8DF3", "U+8DF3">>
      [] speaker = Id_nuonuo -> <<"U+7CEF", "U+7CEF">>
      [] speaker = Id_lingxi -> <<"U+7075", "U+7280">>
      [] speaker = Id_constructor -> <<"O", "b", "j", "e", "c", "t">>
      [] speaker = Id_proto -> <<"undefined">>
      [] OTHER -> speaker

(* The absent speaker of a user message: undefined, which is falsy *)
NoSpeaker == <<>>

Slice(s, from, to) == SubSeq(s, from, to)

(* s has pat at position i (1-based) *)
IsPrefixAt(s, pat, i) ==
    /\ i >= 1
    /\ i + Len(pat) - 1 <= Len(s)
    /\ \A k \in 1..Len(pat) : s[i + k - 1] = pat[k]

(* String.prototype.endsWith *)
EndsWith(s, pat) == IsPrefixAt(s, pat, Len(s) - Len(pat) + 1)

(* A mutant of Trim: only the leading whitespace is removed (trimStart). *)
TrimStartOnly(s) ==
    LET keep == {i \in 1..Len(s) : s[i] \notin WhiteSpace}
    IN  IF keep = {} THEN <<>>
        ELSE LET lo == CHOOSE i \in keep : \A j \in keep : i <= j
             IN  SubSeq(s, lo, Len(s))

(* String.prototype.trim *)
Trim(s) ==
    LET keep == {i \in 1..Len(s) : s[i] \notin WhiteSpace}
    IN  IF keep = {} THEN <<>>
        ELSE LET lo == CHOOSE i \in keep : \A j \in keep : i <= j
                 hi == CHOOSE i \in keep : \A j \in keep : i >= j
             IN  Slice(s, lo, hi)

-----------------------------------------------------------------------------
(* The pattern of line 150: an opening marker "[START:" \w+ "]", then a
   lazy run of any characters, then the closing marker "[END]" or the end
   of the input; global flag, so each exec resumes at lastIndex. *)

(* \w+ is greedy and the character after it must be "]": the run of word
   characters from i ends just before the first other character. *)
WordRunEnd(s, i) ==
    LET stops == {j \in i..Len(s) : s[j] \notin WordChars}
    IN  IF stops = {} THEN Len(s) + 1
        ELSE CHOOSE j \in stops : \A k \in stops : j <= k

(* A mutant of OpenerAt: the closing bracket of the opening marker is
   optional, so a marker still being received counts as one. *)
OpenerAtNoBracket(s, p) ==
    /\ IsPrefixAt(s, StartTag, p)
    /\ WordRunEnd(s, p + Len(StartTag)) > p + Len(StartTag)

(* The opening marker matches at position p *)
OpenerAt(s, p) ==
    /\ IsPrefixAt(s, StartTag, p)
    /\ LET e == WordRunEnd(s, p + Len(StartTag))
       IN  /\ e > p + Len(StartTag)
           /\ e <= Len(s)
           /\ s[e] = CloseBracket

(* The leftmost opener at or after from; 0 when there is none *)
NextOpener(s, from) ==
    LET ps == {p \in from..Len(s) : OpenerAt(s, p)}
    IN  IF ps = {} THEN 0 ELSE CHOOSE p \in ps : \A q \in ps : p <= q

(* A mutant of ContentEnd: the content is cut at the last closing marker
   of the input instead of the first one after the opener. *)
ContentEndGreedy(s, from) ==
    LET es == {e \in from..Len(s) : IsPrefixAt(s, EndTag, e)}
    IN  IF es = {} THEN 0 ELSE CHOOSE e \in es : \A q \in es : e >= q

(* The lazy content stops at the first closing marker at or after from;
   0 when there is none and the content runs to the end of the input. *)
ContentEnd(s, from) ==
    LET es == {e \in from..Len(s) : IsPrefixAt(s, EndTag, e)}
    IN  IF es = {} THEN 0 ELSE CHOOSE e \in es : \A q \in es : e <= q

(* One match of the pattern whose opener is at p: index is match.index,
   m0 is match[0], id is match[1], content is match[2], and last is the
   pattern's lastIndex after the match (1-based position of the next scan). *)
MatchAt(s, p) ==
    LET idFrom == p + Len(StartTag)
        idEnd == WordRunEnd(s, idFrom)
        cFrom == idEnd + 1
        e == ContentEnd(s, cFrom)
        cTo == IF e = 0 THEN Len(s) ELSE e - 1
        last == IF e = 0 THEN Len(s) + 1 ELSE e + Len(EndTag)
    IN  [index |-> p,
         id |-> Slice(s, idFrom, idEnd - 1),
         content |-> Slice(s, cFrom, cTo),
         m0 |-> Slice(s, p, last - 1),
         last |-> last]

(* while ((match = pattern.exec(raw)) !== null): every match, left to right,
   each scan starting at the lastIndex the previous match left (line 152) *)
RECURSIVE ExecAll(_, _)
ExecAll(s, from) ==
    LET p == NextOpener(s, from)
    IN  IF p = 0 THEN <<>>
        ELSE LET m == MatchAt(s, p)
             IN  <<m>> \o ExecAll(s, m.last)

(* A mutant of IsStillStreaming: the closing marker is misspelt in the
   test, so no match is ever seen as closed. *)
IsStillStreamingWrongTag(m0) ==
    ~EndsWith(m0, <<"[", "/", "E", "N", "D", "]">>)

(* const isStillStreaming = !match[0].endsWith('[END]')  (line 155) *)
IsStillStreaming(m0) == ~EndsWith(m0, EndTag)

(* The message parseBubbles pushes for one match (lines 157-163) *)
BubbleOf(m, t) ==
    LET content == Trim(m.content)
        isStillStreaming == IsStillStreaming(m.m0)
    IN  [role |-> "model",
         speaker |-> m.id,
         text |-> IF content # <<>> THEN content
                  ELSE IF isStillStreaming THEN ThinkingText
                  ELSE ClosedPlaceholder,
         timestamp |-> t,
         isStreaming |-> isStillStreaming]

RECURSIVE BubblesOf(_, _)
BubblesOf(ms, t) ==
    IF ms = <<>> THEN <<>>
    ELSE (IF SymbiontLookup(Head(ms).id) THEN <<BubbleOf(Head(ms), t)>>
          ELSE <<>>) \o BubblesOf(Tail(ms), t)

(* parseBubbles(raw), called while Date.now() is t  (lines 148-167) *)
parseBubbles(raw, t) == BubblesOf(ExecAll(raw, 1), t)

-----------------------------------------------------------------------------
(* Messages *)

Range(f) == {f[i] : i \in DOMAIN f}

(* isStreaming is optional in Message (line 31) and is read only for its
   truthiness (lines 233, 240, 243, 363): an absent field is FALSE here. *)
UserMessage(text, t) ==
    [role |-> "user", speaker |-> NoSpeaker, text |-> text, timestamp |-> t,
     isStreaming |-> FALSE]

(* The record of the catch block (lines 211-213) *)
FallbackMessage(t) ==
    [role |-> "model", speaker |-> Id_moyan, text |-> FallbackText,
     timestamp |-> t, isStreaming |-> FALSE]

(* The record of the mount effect (lines 294-296) *)
GreetingMessage(t) ==
    [role |-> "model", speaker |-> Id_xiaozhi, text |-> GreetingText,
     timestamp |-> t, isStreaming |-> FALSE]

(* prev.map(m => ({ ...m, isStreaming: false }))  (line 208) *)
CloseAll(prev) ==
    [i \in 1..Len(prev) |-> [prev[i] EXCEPT !.isStreaming = FALSE]]

(* A mutant of OnStreamFailure: the fallback record is put in front. *)
OnStreamFailurePrepend(prev, t) == <<FallbackMessage(t)>> \o prev

(* prev => [...prev, fallback]  (lines 211-213) *)
OnStreamFailure(prev, t) == Append(prev, FallbackMessage(t))

(* A mutant of SendRejected: the isLoading test is left out. *)
SendRejectedBlankOnly(text, loading) == Trim(text) = <<>>

(* if (!text.trim() || isLoading) return;  (line 170) *)
SendRejected(text, loading) == Trim(text) = <<>> \/ loading

(* The number of records of the snapshot sent with a request (line 190) *)
HistoryWindow == 10

(* s.slice(-n): the last n elements of s, all of s if it has fewer *)
SliceLast(s, n) ==
    SubSeq(s, IF Len(s) > n THEN Len(s) - n + 1 ELSE 1, Len(s))

(* The entry a record becomes in the request (lines 190-193): a user
   record's text as it is, an agent record's text after "[speaker] " *)
ContentEntry(m) ==
    [role |-> m.role,
     text |-> IF m.role = "user"
              THEN m.text
              ELSE <<"[">> \o m.speaker \o <<"]", " ">> \o m.text]

(* contents of generateContentStream (lines 189-195): the entries of the
   last HistoryWindow records of the snapshot, then the submitted text as a
   user entry *)
RequestContents(historySnapshot, text) ==
    LET window == SliceLast(historySnapshot, HistoryWindow)
    IN  [k \in 1..Len(window) |-> ContentEntry(window[k])]
            \o <<[role |-> "user", text |-> text]>>

RemoveAt(s, i) == SubSeq(s, 1, i - 1) \o SubSeq(s, i + 1, Len(s))

-----------------------------------------------------------------------------
(* Inputs *)

Moyan == StartTag \o Id_moyan \o <<"]">>
Apu == StartTag \o Id_apu \o <<"]">>
ApuEmpty == Apu \o <<" ">> \o EndTag
Unknown == StartTag \o <<"c", "]">>

(* The texts a user submits: blank ones (empty, a space, an em space) and a
   real one *)
UserTexts == { <<>>, <<" ">>, <<"U+2003">>, <<"h", "e", "l", "l", "o">> }

(* The chunks the model-call service delivers in the chat specification *)
Chunks ==
    { <<>>,
      Moyan,
      Moyan \o <<"h", "i", "[", "E", "N">>,
      <<"D", "]">>,
      ApuEmpty,
      Unknown \o <<"x">> }

(* The fragments the parser harness appends to its buffer *)
Fragments ==
    { Moyan, ApuEmpty, Unknown,
      <<" ", "h", "i", " ">>,
      EndTag,
      <<"[", "E", "N">>,
      <<"D", "]">>,
      StartTag \o <<"m", "o">> }

(* The personas the harness toggles *)
ToggleIds == {Id_apu, Id_moyan}

RandomIds == {"r1", "r2"}

(* A closed segment whose identifier is a name every object inherits *)
ConstructorSeg == StartTag \o Id_constructor \o <<"]", "x">> \o EndTag

(* The chunks delivered in the speaker-check specification: a persona's
   segment, one with an inherited name, one with an unknown name *)
LookupChunks == { Moyan, ConstructorSeg, Unknown \o <<"x">> }

(* The chunks delivered in the note specification: an open record, a
   closed one *)
NoteChunks == { Moyan, ApuEmpty }

(* The Thought of addThought (lines 124-130) *)
NewThought(msg, id, t) ==
    [id |-> id,
     content |-> msg.text,
     tags |-> <<SymbiontName(msg.speaker), SoilTag>>,
     timestamp |-> t,
     sourceSymbiont |-> msg.speaker]

(* What localStorage holds under companion_star_thoughts at mount
   (lines 114-115): no value (a fresh store), or the array an earlier
   session saved (line 119), here with one note taken then *)
StoredThoughts ==
    { <<>>,
      <<NewThought([speaker |-> Id_moyan, text |-> <<"k", "e", "p", "t">>],
                   "r1", 0)>> }

-----------------------------------------------------------------------------
(* The chat reducer: sendMessage (lines 169-217) *)

(* The state after mount. The notes start from what the store holds
   (lines 113-116): nothing in a fresh store, or the array an earlier
   session wrote (line 119). *)
Init ==
    /\ chatHistory = <<GreetingMessage(0)>>
    /\ isLoading = FALSE
    /\ calls = <<>>
    /\ now = 0
    /\ thoughts \in StoredThoughts
    /\ activeIds = <<Id_xiaozhi, Id_moyan, Id_nuonuo>>
    /\ nTurns = 0
    /\ nDeltas = 0
    /\ pRaw = <<>>
    /\ pOut = <<>>
    /\ pBase = <<>>
    /\ pBaseOut = <<>>
    /\ pN = 0

(* sendMessage(text) up to its first await (lines 169-198): the request
   leaves with its contents *)
SendMessage(text) ==
    IF SendRejected(text, isLoading)
    THEN UNCHANGED vars
    ELSE /\ nTurns < MaxTurns
         /\ LET userMessage == UserMessage(text, now)
                historySnapshot == Append(chatHistory, userMessage)
            IN  /\ chatHistory' = historySnapshot
                /\ isLoading' = TRUE
                /\ calls' = Append(calls,
                                   [historySnapshot |-> historySnapshot,
                                    contents |->
                                        RequestContents(historySnapshot,
                                                        text),
                                    currentTurnRaw |-> <<>>,
                                    pc |-> "awaiting"])
         /\ nTurns' = nTurns + 1
         /\ UNCHANGED <<now, thoughts, activeIds, nDeltas, parseVars>>

(* A mutant of Delta: the history is replaced by the turn's bubbles alone,
   the snapshot taken at submit left out. *)
DeltaReplacesHistory(i, chunk) ==
    /\ i \in DOMAIN calls
    /\ nDeltas < MaxDeltas
    /\ LET currentTurnRaw == calls[i].currentTurnRaw \o chunk
           currentTurnBubbles == parseBubbles(currentTurnRaw, now)
       IN  /\ calls' = [calls EXCEPT ![i].currentTurnRaw = currentTurnRaw,
                                     ![i].pc = "streaming"]
           /\ chatHistory' =
                  IF Len(currentTurnBubbles) > 0
                  THEN currentTurnBubbles
                  ELSE chatHistory
    /\ nDeltas' = nDeltas + 1
    /\ UNCHANGED <<isLoading, now, thoughts, activeIds, nTurns, parseVars>>

(* A mutant of Delta: a buffer without any segment is shown as one bubble
   holding the raw text. *)
DeltaShowsRawText(i, chunk) ==
    /\ i \in DOMAIN calls
    /\ nDeltas < MaxDeltas
    /\ LET currentTurnRaw == calls[i].currentTurnRaw \o chunk
           currentTurnBubbles == parseBubbles(currentTurnRaw, now)
       IN  /\ calls' = [calls EXCEPT ![i].currentTurnRaw = currentTurnRaw,
                                     ![i].pc = "streaming"]
           /\ chatHistory' =
                  IF Len(currentTurnBubbles) > 0
                  THEN calls[i].historySnapshot \o currentTurnBubbles
                  ELSE Append(calls[i].historySnapshot,
                              [role |-> "model", speaker |-> Id_moyan,
                               text |-> currentTurnRaw, timestamp |-> now,
                               isStreaming |-> TRUE])
    /\ nDeltas' = nDeltas + 1
    /\ UNCHANGED <<isLoading, now, thoughts, activeIds, nTurns, parseVars>>

(* A mutant of Delta: the bubbles are appended to the current history
   (prev => [...prev, ...bubbles]) instead of replacing the turn's block. *)
DeltaAppendsToPrev(i, chunk) ==
    /\ i \in DOMAIN calls
    /\ nDeltas < MaxDeltas
    /\ LET currentTurnRaw == calls[i].currentTurnRaw \o chunk
           currentTurnBubbles == parseBubbles(currentTurnRaw, now)
       IN  /\ calls' = [calls EXCEPT ![i].currentTurnRaw = currentTurnRaw,
                                     ![i].pc = "streaming"]
           /\ chatHistory' =
                  IF Len(currentTurnBubbles) > 0
                  THEN chatHistory \o currentTurnBubbles
                  ELSE chatHistory
    /\ nDeltas' = nDeltas + 1
    /\ UNCHANGED <<isLoading, now, thoughts, activeIds, nTurns, parseVars>>

(* One turn of the for-await loop (lines 201-207) *)
Delta(i, chunk) ==
    /\ i \in DOMAIN calls
    /\ nDeltas < MaxDeltas
    /\ LET currentTurnRaw == calls[i].currentTurnRaw \o chunk
           currentTurnBubbles == parseBubbles(currentTurnRaw, now)
       IN  /\ calls' = [calls EXCEPT ![i].currentTurnRaw = currentTurnRaw,
                                     ![i].pc = "streaming"]
           /\ chatHistory' =
                  IF Len(currentTurnBubbles) > 0
                  THEN calls[i].historySnapshot \o currentTurnBubbles
                  ELSE chatHistory
    /\ nDeltas' = nDeltas + 1
    /\ UNCHANGED <<isLoading, now, thoughts, activeIds, nTurns, parseVars>>

(* A mutant of StreamEnd: the finally block is missing, so a normal end
   leaves isLoading as it was. *)
StreamEndKeepsLoading(i) ==
    /\ i \in DOMAIN calls
    /\ chatHistory' = CloseAll(chatHistory)
    /\ calls' = RemoveAt(calls, i)
    /\ UNCHANGED <<isLoading, now, thoughts, activeIds, nTurns, nDeltas,
                   parseVars>>

(* The stream ends: line 208, then the finally block (line 215) *)
StreamEnd(i) ==
    /\ i \in DOMAIN calls
    /\ chatHistory' = CloseAll(chatHistory)
    /\ isLoading' = FALSE
    /\ calls' = RemoveAt(calls, i)
    /\ UNCHANGED <<now, thoughts, activeIds, nTurns, nDeltas, parseVars>>

(* The model call or the stream throws: the catch block (lines 209-213),
   then the finally block (line 215) *)
StreamFailure(i) ==
    /\ i \in DOMAIN calls
    /\ chatHistory' = OnStreamFailure(chatHistory, now)
    /\ isLoading' = FALSE
    /\ calls' = RemoveAt(calls, i)
    /\ UNCHANGED <<now, thoughts, activeIds, nTurns, nDeltas, parseVars>>

(* Time passes: Date.now() grows *)
Tick ==
    /\ now < MaxClock
    /\ now' = now + 1
    /\ UNCHANGED <<chatHistory, isLoading, calls, thoughts, activeIds, nTurns,
                   nDeltas, parseVars>>

ChatNext ==
    \/ \E text \in UserTexts : SendMessage(text)
    \/ \E i \in 1..MaxTurns, chunk \in Chunks : Delta(i, chunk)
    \/ \E i \in 1..MaxTurns : StreamEnd(i)
    \/ \E i \in 1..MaxTurns : StreamFailure(i)

Next == ChatNext \/ Tick

Spec == Init /\ [][Next]_vars

(* The model-call service ends or fails the stream of a turn in flight *)
Finish == \E i \in 1..MaxTurns : StreamEnd(i) \/ StreamFailure(i)

(* The chat reducer with a service that does not leave a stream pending
   for ever: it delivers finitely many chunks (MaxDeltas bounds them) and
   then ends or fails. *)
LiveSpec == Init /\ [][ChatNext]_vars /\ WF_vars(Finish)

-----------------------------------------------------------------------------
(* The note store: useThoughtSoil (lines 112-139) and the button of
   MessageItem (lines 243-250) *)

(* A mutant of WeaveOffered: the button is drawn for streaming records too. *)
WeaveOfferedWhileStreaming(m) == m.role # "user"

(* {!isUser && !m.isStreaming && ( ... <button onClick={() => onWeave(m)}>
   (lines 243-246): the record has the button that extracts a note *)
WeaveOffered(m) == m.role # "user" /\ ~m.isStreaming

(* addThought(msg) (lines 122-132): the notes after the call *)
addThought(prev, msg, id, t) ==
    IF msg.speaker = NoSpeaker THEN prev
    ELSE <<NewThought(msg, id, t)>> \o prev

(* The user asks for a note of record i of the history; only a record
   that has the button reaches addThought. *)
Weave(i, id) ==
    /\ i \in DOMAIN chatHistory
    /\ Len(thoughts) < MaxThoughts
    /\ thoughts' = IF WeaveOffered(chatHistory[i])
                   THEN addThought(thoughts, chatHistory[i], id, now)
                   ELSE thoughts
    /\ UNCHANGED <<chatHistory, isLoading, calls, now, activeIds, nTurns,
                   nDeltas, parseVars>>

(* removeThought(id)  (lines 134-136) *)
removeThought(id) ==
    /\ \E k \in DOMAIN thoughts : thoughts[k].id = id
    /\ thoughts' = SelectSeq(thoughts, LAMBDA th : th.id # id)
    /\ UNCHANGED <<chatHistory, isLoading, calls, now, activeIds, nTurns,
                   nDeltas, parseVars>>

NoteNext ==
    \/ \E text \in UserTexts : SendMessage(text)
    \/ \E i \in 1..MaxTurns, chunk \in NoteChunks : Delta(i, chunk)
    \/ \E i \in 1..MaxTurns : StreamEnd(i)
    \/ \E i \in 1..MaxTurns : StreamFailure(i)
    \/ \E i \in 1..(2 * MaxTurns + MaxDeltas + 1), id \in RandomIds :
           Weave(i, id)
    \/ \E id \in RandomIds : removeThought(id)

NoteSpec == Init /\ [][NoteNext]_vars

(* The chat whose stream delivers identifiers of all three kinds *)
LookupNext ==
    \/ \E text \in UserTexts : SendMessage(text)
    \/ \E i \in 1..MaxTurns, chunk \in LookupChunks : Delta(i, chunk)
    \/ \E i \in 1..MaxTurns : StreamEnd(i)
    \/ \E i \in 1..MaxTurns : StreamFailure(i)

LookupSpec == Init /\ [][LookupNext]_vars

-----------------------------------------------------------------------------
(* The parser harness: parseBubbles applied to a growing buffer *)

(* toggleSymbiont(id)  (lines 308-310) *)
toggleSymbiont(id) ==
    /\ activeIds' = IF id \in Range(activeIds)
                    THEN SelectSeq(activeIds, LAMBDA x : x # id)
                    ELSE Append(activeIds, id)
    /\ UNCHANGED <<chatHistory, isLoading, calls, now, thoughts, nTurns,
                   nDeltas, parseVars>>

(* A fragment is appended to the buffer and the buffer is parsed *)
ParseAppend(f) ==
    /\ pN < MaxFrags
    /\ pRaw' = pRaw \o f
    /\ pOut' = parseBubbles(pRaw \o f, now)
    /\ pN' = pN + 1
    /\ UNCHANGED <<pBase, pBaseOut, chatVars>>

(* The current buffer and its parse are kept for comparison *)
ParseMark ==
    /\ pBase' = pRaw
    /\ pBaseOut' = pOut
    /\ UNCHANGED <<pRaw, pOut, pN, chatVars>>

ParseNext ==
    \/ \E f \in Fragments : ParseAppend(f)
    \/ ParseMark
    \/ \E id \in ToggleIds : toggleSymbiont(id)

(* The harness starts on the mounted application with a fresh store: the
   parser reads no note. *)
ParseInit == Init /\ thoughts = <<>>

ParseSpec == ParseInit /\ [][ParseNext]_vars

-----------------------------------------------------------------------------
(* Properties *)

IsOpen(m) == m.isStreaming

HasEndTagFrom(s, p) == \E e \in p..Len(s) : IsPrefixAt(s, EndTag, e)

(* The speaker, text and open flag of a record *)
Shown(m) == <<m.role, m.speaker, m.text, m.isStreaming>>

(* C1: whenever no turn is in flight (isLoading is false), no record of the
   history is open, also after a failure that arrives mid-stream. *)
C1_NoOpenRecordWhenIdle ==
    ~isLoading => \A i \in DOMAIN chatHistory : ~IsOpen(chatHistory[i])

(* C2: roster filtering: whatever the buffer, parseBubbles returns no
   record whose speaker is outside the active roster (activeIds). *)
C2_RosterFiltering ==
    \A r \in Range(parseBubbles(pRaw, now)) : r.speaker \in Range(activeIds)

(* C3: monotonic prefix: every closed record of the parse of a buffer is at
   the same position, with the same speaker and text and still closed, in
   the parse of any extension of that buffer. *)
C3_MonotonicPrefix ==
    \A i \in DOMAIN pBaseOut :
        ~IsOpen(pBaseOut[i]) =>
            /\ i <= Len(pOut)
            /\ pOut[i].speaker = pBaseOut[i].speaker
            /\ pOut[i].text = pBaseOut[i].text
            /\ ~IsOpen(pOut[i])

(* C3 witness: the earlier parse has a closed record and a trailing open
   one, and the buffer has grown so that the open one has changed. *)
C3_Witness ==
    /\ Len(pBaseOut) >= 2
    /\ ~IsOpen(pBaseOut[1])
    /\ IsOpen(pBaseOut[Len(pBaseOut)])
    /\ pBase # pRaw
    /\ Len(pOut) >= Len(pBaseOut)
    /\ pOut[Len(pBaseOut)] # pBaseOut[Len(pBaseOut)]

(* C4: single open record: parseBubbles returns at most one open record, it
   is the last one, and no closing marker occurs in the buffer after the
   opening marker of its segment. *)
C4_SingleOpen ==
    \A i \in DOMAIN pOut :
        IsOpen(pOut[i]) =>
            /\ i = Len(pOut)
            /\ \E p \in 1..Len(pRaw) :
                   /\ OpenerAt(pRaw, p)
                   /\ MatchAt(pRaw, p).id = pOut[i].speaker
                   /\ ~HasEndTagFrom(pRaw, p)

(* C4 witness: the buffer holds a closing marker, and the parse has a
   closed record followed by a last, open one. *)
C4_Witness ==
    /\ Len(pOut) >= 2
    /\ ~IsOpen(pOut[1])
    /\ IsOpen(pOut[Len(pOut)])
    /\ HasEndTagFrom(pRaw, 1)

(* C5: a submission made while a turn is in flight changes nothing (no user
   record, no model call, the flag stays), and so at most one turn is ever
   awaiting or streaming. *)
C5_SingleTurnInFlight ==
    /\ [](Len(calls) <= 1)
    /\ [](isLoading <=> Len(calls) = 1)
    /\ [][(isLoading /\ \E text \in UserTexts : SendMessage(text))
             => UNCHANGED <<chatHistory, calls, isLoading, nTurns>>]_vars

(* C5 witness: a turn is streaming and a further submission would still be
   within the model's bound, so it is the guard that rejects it. *)
C5_Witness ==
    /\ isLoading
    /\ Len(calls) = 1
    /\ calls[1].pc = "streaming"
    /\ nTurns < MaxTurns

(* C6: a closed record is immutable: no step changes a field of a record of
   the history that is closed, or removes it. *)
C6_ClosedImmutable ==
    [][\A i \in DOMAIN chatHistory :
           ~IsOpen(chatHistory[i]) =>
               /\ i <= Len(chatHistory')
               /\ chatHistory'[i] = chatHistory[i]]_vars

(* C7: a failure of the turn appends exactly one closed fallback record
   (persona moyan, the fixed text) after the records the history held, which
   stay as they were, and the turn-in-flight flag becomes false. *)
C7_FailureAppendsFallback ==
    [][\A i \in 1..MaxTurns :
           StreamFailure(i) =>
               /\ Len(chatHistory') = Len(chatHistory) + 1
               /\ \A k \in DOMAIN chatHistory :
                      chatHistory'[k] = chatHistory[k]
               /\ LET last == chatHistory'[Len(chatHistory')]
                  IN  /\ last.role = "model"
                      /\ last.speaker = Id_moyan
                      /\ last.text = FallbackText
                      /\ ~IsOpen(last)
               /\ ~isLoading'
               /\ calls' = RemoveAt(calls, i)]_vars

(* C7 witness: a turn has failed mid-stream: the fallback record is last
   and follows a record the stream had produced. *)
C7_Witness ==
    /\ ~isLoading
    /\ Len(chatHistory) >= 4
    /\ chatHistory[Len(chatHistory)].text = FallbackText
    /\ chatHistory[Len(chatHistory) - 1].role = "model"
    /\ chatHistory[Len(chatHistory) - 1].text # FallbackText
    /\ chatHistory[Len(chatHistory) - 2].role = "user"

(* The records of a parse, every one marked closed *)
ClosedShown(bubbles) ==
    [k \in 1..Len(bubbles) |->
        <<"model", bubbles[k].speaker, bubbles[k].text, FALSE>>]

(* C8: when the stream ends, the history is the history before the turn,
   then the closed user record, then the records of the parse of the whole
   buffer, in order, all closed; and the turn-in-flight flag is false. *)
C8_StreamEndFinalizes ==
    [][\A i \in 1..MaxTurns :
           StreamEnd(i) =>
               LET snap == calls[i].historySnapshot
                   bubbles == parseBubbles(calls[i].currentTurnRaw, now)
               IN  /\ Len(chatHistory') = Len(snap) + Len(bubbles)
                   /\ SubSeq(chatHistory', 1, Len(snap)) = snap
                   /\ snap[Len(snap)].role = "user"
                   /\ ~IsOpen(snap[Len(snap)])
                   /\ [k \in 1..Len(bubbles) |->
                          Shown(chatHistory'[Len(snap) + k])]
                        = ClosedShown(bubbles)
                   /\ ~isLoading']_vars

(* C9: the open placeholder text is carried only by open records; a closed
   record of an empty segment carries the closed placeholder. *)
C9_PlaceholderDistinction ==
    \A i \in DOMAIN chatHistory :
        chatHistory[i].text = ThinkingText => IsOpen(chatHistory[i])

(* C10: asking for a note of a record without speaker, or of an open record,
   leaves the notes unchanged; otherwise exactly one note is added, whose
   content and sourceSymbiont are the record's text and speaker. *)
C10_NoteExtraction ==
    [][\A i \in DOMAIN chatHistory, id \in RandomIds :
           Weave(i, id) =>
               LET m == chatHistory[i]
               IN  IF m.speaker = NoSpeaker \/ IsOpen(m)
                   THEN thoughts' = thoughts
                   ELSE /\ Len(thoughts') = Len(thoughts) + 1
                        /\ thoughts'[1].content = m.text
                        /\ thoughts'[1].sourceSymbiont = m.speaker
                        /\ Tail(thoughts') = thoughts]_vars

(* C10 witness: a note has been taken from a closed record while the history
   also holds a user record and an open record, which give none. *)
C10_Witness ==
    /\ Len(thoughts) = 1
    /\ \E i \in DOMAIN chatHistory :
           /\ ~IsOpen(chatHistory[i])
           /\ chatHistory[i].speaker # NoSpeaker
           /\ thoughts[1].content = chatHistory[i].text
           /\ thoughts[1].sourceSymbiont = chatHistory[i].speaker
    /\ \E i \in DOMAIN chatHistory : IsOpen(chatHistory[i])
    /\ \E i \in DOMAIN chatHistory : chatHistory[i].speaker = NoSpeaker

(* The role, speaker and text of a record *)
Identity(m) == <<m.role, m.speaker, m.text>>

(* The records of base are the first records of h, in order, with the same
   role, speaker and text *)
KeepsBase(base, h) ==
    /\ Len(h) >= Len(base)
    /\ \A k \in 1..Len(base) : Identity(h[k]) = Identity(base[k])

(* C11: history is append-only at turn granularity: a submit puts the user
   record right after the records the history held, and every delta, stream
   end and stream failure of the turn keeps those records and the user
   record in place with their role, speaker and text; only the agent records
   after the user record change. *)
C11_AppendOnlyPerTurn ==
    /\ [](\A i \in DOMAIN calls :
              LET snap == calls[i].historySnapshot
              IN  /\ KeepsBase(snap, chatHistory)
                  /\ snap[Len(snap)].role = "user"
                  /\ \A k \in (Len(snap) + 1)..Len(chatHistory) :
                         chatHistory[k].role = "model")
    /\ [][Len(calls') = Len(calls) + 1 =>
              LET snap == calls'[Len(calls')].historySnapshot
              IN  /\ Len(snap) = Len(chatHistory) + 1
                  /\ KeepsBase(chatHistory, snap)
                  /\ chatHistory' = snap]_vars
    /\ [][\A i \in 1..MaxTurns :
              (StreamEnd(i) \/ StreamFailure(i)) =>
                  KeepsBase(calls[i].historySnapshot, chatHistory')]_vars

(* C11 witness: the second turn is streaming: the history holds the records
   of the first turn, the user record of the second and agent records
   after it. *)
C11_Witness ==
    /\ Len(calls) = 1
    /\ nTurns = 2
    /\ Len(calls[1].historySnapshot) >= 4
    /\ Len(chatHistory) > Len(calls[1].historySnapshot)

(* C12: raw text without any valid segment is discarded: while the parse of
   the turn's buffer is empty the history is the one the submit left (no
   agent record of the turn), and a stream end then leaves the turn with its
   user record alone. *)
C12_NoSegmentNoRecord ==
    /\ [](\A i \in DOMAIN calls :
              parseBubbles(calls[i].currentTurnRaw, now) = <<>> =>
                  chatHistory = calls[i].historySnapshot)
    /\ [][\A i \in 1..MaxTurns :
              (StreamEnd(i)
                 /\ parseBubbles(calls[i].currentTurnRaw, now) = <<>>) =>
                  /\ Len(chatHistory') = Len(calls[i].historySnapshot)
                  /\ KeepsBase(calls[i].historySnapshot, chatHistory')
                  /\ chatHistory'[Len(chatHistory')].role = "user"
                  /\ ~isLoading']_vars

(* C12 witness: the stream has delivered text, an opening marker with an
   unknown id among it, and the parse of the buffer is empty. *)
C12_Witness ==
    /\ Len(calls) = 1
    /\ calls[1].pc = "streaming"
    /\ IsPrefixAt(calls[1].currentTurnRaw, Unknown, 1)
    /\ parseBubbles(calls[1].currentTurnRaw, now) = <<>>
    /\ chatHistory = calls[1].historySnapshot

(* The matches of the pattern whose id passes the test of line 156, the
   ones parseBubbles makes a record of *)
EmittedMatches(s) ==
    SelectSeq(ExecAll(s, 1), LAMBDA m : SymbiontLookup(m.id))

(* C14: every opening marker with a valid id that does not lie inside the
   content of an earlier emitted segment begins a segment of its own: an
   earlier opening marker with an unrecognized id does not keep the parser
   from emitting it. *)
C14_ValidOpenerBeginsSegment ==
    LET em == EmittedMatches(pRaw)
    IN  \A p \in 1..Len(pRaw) :
            (/\ OpenerAt(pRaw, p)
             /\ SymbiontLookup(MatchAt(pRaw, p).id)
             /\ ~\E k \in DOMAIN em : em[k].index < p /\ p < em[k].last)
            => \E k \in DOMAIN em :
                   /\ em[k].index = p
                   /\ k <= Len(pOut)
                   /\ pOut[k].speaker = em[k].id

(* C15: snapshot consistency: while a turn is in flight the history is the
   snapshot taken at submit (the earlier history and the user record)
   followed by exactly the parse of all the chunks received so far. *)
C15_SnapshotConsistency ==
    \A i \in DOMAIN calls :
        LET snap == calls[i].historySnapshot
            bubbles == parseBubbles(calls[i].currentTurnRaw, now)
        IN  /\ Len(chatHistory) = Len(snap) + Len(bubbles)
            /\ SubSeq(chatHistory, 1, Len(snap)) = snap
            /\ snap[Len(snap)].role = "user"
            /\ \A k \in 1..Len(bubbles) :
                   Shown(chatHistory[Len(snap) + k]) = Shown(bubbles[k])

(* C15 witness: two chunks have arrived and the second one has replaced the
   record the first one gave: the open record "hi[EN" is now the closed
   record "hi". *)
C15_Witness ==
    /\ Len(calls) = 1
    /\ calls[1].currentTurnRaw =
           Moyan \o <<"h", "i", "[", "E", "N">> \o <<"D", "]">>
    /\ Len(chatHistory) = Len(calls[1].historySnapshot) + 1
    /\ chatHistory[Len(chatHistory)].text = <<"h", "i">>
    /\ ~IsOpen(chatHistory[Len(chatHistory)])

(* C16: every accepted submission terminates: with a service that ends or
   fails every stream, a turn in flight is eventually over, and isLoading,
   true from the accepted submission on, eventually becomes false, which is
   when a later submission is accepted. *)
C16_TurnTerminates ==
    /\ (Len(calls) = 1) ~> (Len(calls) = 0)
    /\ isLoading ~> ~isLoading
    /\ [](Len(calls) >= 1 => isLoading)
    /\ [][(~isLoading /\ isLoading') => Len(calls') = Len(calls) + 1]_vars

(* C16 witness: a first turn is over and a later submission has been
   accepted and is over, too. *)
C16_Witness ==
    /\ nTurns = 2
    /\ nDeltas >= 1
    /\ ~isLoading
    /\ Len(calls) = 0

(* text is what s holds from a to b without the whitespace at its two ends;
   when that is nothing, text is one of the two placeholders *)
IsTrimmedContent(text, s, a, b) ==
    IF \A j \in a..b : s[j] \in WhiteSpace
    THEN text \in {ThinkingText, ClosedPlaceholder}
    ELSE \E lo \in a..b :
             /\ s[lo] \notin WhiteSpace
             /\ \A j \in a..(lo - 1) : s[j] \in WhiteSpace
             /\ \E hi \in lo..b :
                    /\ s[hi] \notin WhiteSpace
                    /\ \A j \in (hi + 1)..b : s[j] \in WhiteSpace
                    /\ text = SubSeq(s, lo, hi)

(* C17: order and independence of records: parseBubbles returns one record
   per matched segment with a valid id, in the left-to-right order of the
   opening markers; segments do not overlap and are never merged, also when
   they have the same persona id; the speaker is the id of the opening marker
   and the text is the content between the opening marker and the first
   closing marker after it (or the end of the buffer), trimmed at both ends,
   so text outside the segments is in no record. *)
C17_OrderAndIndependence ==
    LET em == EmittedMatches(pRaw)
    IN  /\ Len(pOut) = Len(em)
        /\ \A k \in DOMAIN pOut :
               LET p == em[k].index
                   idFrom == p + Len(StartTag)
                   cFrom == idFrom + Len(pOut[k].speaker) + 1
               IN  /\ IsPrefixAt(pRaw, StartTag, p)
                   /\ IsPrefixAt(pRaw, pOut[k].speaker, idFrom)
                   /\ IsPrefixAt(pRaw, <<CloseBracket>>, cFrom - 1)
                   /\ k > 1 => em[k - 1].last <= p
                   /\ k > 1 => HasEndTagFrom(SubSeq(pRaw, 1, p - 1),
                                             em[k - 1].index)
                   /\ \E cTo \in (cFrom - 1)..Len(pRaw) :
                          /\ cTo = Len(pRaw) \/ IsPrefixAt(pRaw, EndTag, cTo + 1)
                          /\ \A e \in cFrom..cTo : ~IsPrefixAt(pRaw, EndTag, e)
                          /\ IsTrimmedContent(pOut[k].text, pRaw, cFrom, cTo)

(* C17 witness: two segments of the same persona have given two records,
   and text follows the last segment. *)
C17_Witness ==
    /\ Len(pOut) >= 2
    /\ pOut[1].speaker = pOut[2].speaker
    /\ EmittedMatches(pRaw)[Len(pOut)].last <= Len(pRaw)
    /\ ~IsOpen(pOut[Len(pOut)])

(* Proper prefixes of the opening marker "[START:moyan]": its first
   character, the tag alone, the tag with part of the identifier, and all
   of it but the closing bracket *)
PartialOpeners ==
    {SubSeq(Moyan, 1, n) :
         n \in {1, Len(StartTag), Len(StartTag) + 2, Len(Moyan) - 1}}

(* C18: a partial opening marker at the tail of the buffer gives no record
   of its own: the parse has as many records as without it, the same ones
   but for the last; if the last record is open the partial marker is the end
   of its text, and if it is closed it is unchanged. *)
C18_PartialOpenerNoRecord ==
    \A q \in PartialOpeners :
        LET out == parseBubbles(pRaw \o q, now)
            n == Len(pOut)
        IN  /\ Len(out) = n
            /\ \A k \in 1..(n - 1) : Shown(out[k]) = Shown(pOut[k])
            /\ n > 0 =>
                   IF IsOpen(pOut[n])
                   THEN /\ IsOpen(out[n])
                        /\ out[n].speaker = pOut[n].speaker
                        /\ EndsWith(out[n].text, q)
                   ELSE Shown(out[n]) = Shown(pOut[n])

(* C18 witness: the buffer ends with the partial marker "[START:mo" after a
   closed segment and an open one, and the open record's text ends with
   it. *)
C18_Witness ==
    /\ EndsWith(pRaw, StartTag \o <<"m", "o">>)
    /\ Len(pOut) = 2
    /\ ~IsOpen(pOut[1])
    /\ IsOpen(pOut[2])
    /\ EndsWith(pOut[2].text, StartTag \o <<"m", "o">>)

(* C19: content already shown is never dropped while a turn streams: at
   every delta, each agent record of the history before the delta is at the
   same position with the same speaker after it, and its text, unless it is
   a placeholder, is a prefix of its text after the delta. *)
C19_ShownNeverDropped ==
    [][\A i \in 1..MaxTurns, chunk \in Chunks :
           Delta(i, chunk) =>
               \A k \in 1..Len(chatHistory) :
                   chatHistory[k].role = "model" =>
                       /\ k <= Len(chatHistory')
                       /\ chatHistory'[k].speaker = chatHistory[k].speaker
                       /\ chatHistory[k].text
                              \notin {ThinkingText, ClosedPlaceholder} =>
                              IsPrefixAt(chatHistory'[k].text,
                                         chatHistory[k].text, 1)]_vars

(* C20: in every reachable state the speaker of every agent record of the
   history is one of the six persona ids that SYMBIONTS defines. *)
C20_SpeakerIsPersona ==
    \A k \in 1..Len(chatHistory) :
        chatHistory[k].role = "model" =>
            chatHistory[k].speaker \in SymbiontIds

(* C21: the contents of a turn's request hold the submitted text exactly
   once, as the last entry: that entry is the user's text, and the entries
   before it are those of the most recent records the history held before
   the submit, at most HistoryWindow of them, in history order. *)
C21_ContentsHoldTextOnce ==
    \A i \in DOMAIN calls :
        LET snap == calls[i].historySnapshot
            prior == SubSeq(snap, 1, Len(snap) - 1)
            c == calls[i].contents
            front == SubSeq(c, 1, Len(c) - 1)
            recent == SliceLast(prior, Len(front))
        IN  /\ Len(c) >= 1
            /\ c[Len(c)] = [role |-> "user", text |-> snap[Len(snap)].text]
            /\ Len(front) <= HistoryWindow
            /\ Len(front) <= Len(prior)
            /\ \A k \in 1..Len(front) : front[k] = ContentEntry(recent[k])

====
